---- MODULE Spec2Model ----
(***************************************************************************)
(* Deployment lifecycle of the devops agent (src/src/deployment_agent.py,  *)
(* src/src/runbook_agent.py, src/src/root_agent.py).                       *)
(*                                                                         *)
(* The tools (clone_repository_to_temp_dir, clean_up_temp_dir,             *)
(* checkout_branch, build_docker_image, push_docker_image,                 *)
(* create_deployment_file, deploy_branch, monitor_deployment,              *)
(* rollback_branch, get_runbook) are translated from their Python bodies.  *)
(* The order in which they run is the numbered procedure of the            *)
(* deployment_agent and runbook_agent descriptions                         *)
(* (deployment_agent.py:175-201, runbook_agent.py:16-26), read literally:  *)
(*   - root agent call: clone, checkout, build, push, write the deployment *)
(*     file, deploy, clean up, monitor, then runbook agent on failure;     *)
(*   - runbook agent call: deploy the available file, clean up, monitor,   *)
(*     give up when the deployment "has failed 3 times already", else      *)
(*     runbook agent again;                                                *)
(*   - "If any error occurs, use the clean_up_temp_dir tool";              *)
(*   - a CheckoutException is reported to the user and ends the run.       *)
(* "The deployment fails" (steps 1.9 and 2.5) is read as: any tool error   *)
(* other than CheckoutException, or a monitor result of False.             *)
(***************************************************************************)
EXTENDS Integers, Sequences, FiniteSets, TLC

(* ------------------------------ bounds --------------------------------- *)
\* Largest monitor timeout (seconds) tried besides the default of 120.
MaxTimeout == 3
\* Largest poll interval (seconds) tried besides the default of 5.
MaxInterval == 2
\* Longest a single status read takes (seconds).
MaxReadDur == 1
\* Rollback requests the user makes after the run has ended.
MaxRollbacks == 2
\* Longest deployment content (in pieces) a single session writes.
MaxLen == 3
\* get_runbook calls the runbook agent makes in a row.
MaxLookups == 2

(* ------------------------- program constants --------------------------- *)
\* monitor_deployment(..., timeout: int = 120, interval: int = 5)
DefaultTimeout == 120
DefaultInterval == 5
\* "If the deployment has failed 3 times already, tell the user ..."
FailureCap == 3
\* e.status == 409
Conflict == 409

(* ------------------------------ values --------------------------------- *)
Branches == {"feature", "feature-x"}
Envs == {"staging", "x-staging"}
Identities == Branches \X Envs
\* The deployment name the agent passes to create_deployment_file,
\* monitor_deployment and rollback_branch.
DeploymentName == "web"

\* A text is a sequence of pieces: the line terminators "LF" (\n) and "CR"
\* (\r), and runs of characters without a line terminator.
Terminators == {"LF", "CR"}
NoFile == <<"<absent>">>
\* Deployment file contents the agent may input (create_deployment_file's
\* deployment_content): two well-formed Deployment documents with different
\* specs, a YAML document without metadata.name, and text that is not YAML,
\* each written on one line (YAML flow style).
Texts == {<<"good-1">>, <<"good-2">>, <<"no-name">>, <<"not-yaml">>}

\* os.linesep: "\n" on POSIX, "\r\n" on Windows.
LineSeps == {<<"LF">>, <<"CR", "LF">>}

\* f.write(text) on a file opened with open(path, "w") (lines 162-163): text
\* mode with newline=None writes every "\n" as os.linesep and everything
\* else as it is.
RECURSIVE f_write(_, _)
f_write(text, linesep) ==
    IF text = <<>> THEN <<>>
    ELSE (IF Head(text) = "LF" THEN linesep ELSE <<Head(text)>>)
             \o f_write(Tail(text), linesep)

\* f.read() on a file opened with open(path) (line 70): text mode with
\* newline=None hands out "\r\n" and a lone "\r" as "\n".
RECURSIVE f_read(_)
f_read(stored) ==
    IF stored = <<>> THEN <<>>
    ELSE IF Head(stored) = "CR"
    THEN <<"LF">> \o f_read(IF Len(stored) >= 2 /\ stored[2] = "LF"
                            THEN Tail(Tail(stored)) ELSE Tail(stored))
    ELSE <<Head(stored)>> \o f_read(Tail(stored))

\* The pieces of a text that are not line terminators.
RECURSIVE Runs(_)
Runs(text) ==
    IF text = <<>> THEN <<>>
    ELSE (IF Head(text) \in Terminators THEN <<>> ELSE <<Head(text)>>)
             \o Runs(Tail(text))

\* yaml.safe_load of an open deployment file (deploy_branch, lines 70-71):
\* reads the file in text mode; raises on text that is not one YAML
\* document, else yields the document. Line breaks around a flow-style
\* document do not matter.
safe_load(stored) ==
    LET body == Runs(f_read(stored))
    IN  CASE body = <<"good-1">> ->
               [raised |-> FALSE, name |-> DeploymentName, spec |-> "spec-1"]
          [] body = <<"good-2">> ->
               [raised |-> FALSE, name |-> DeploymentName, spec |-> "spec-2"]
          [] body = <<"no-name">> -> [raised |-> FALSE, name |-> "", spec |-> "spec-1"]
          [] OTHER -> [raised |-> TRUE, name |-> "", spec |-> ""]

(* ---------------------------- file system ------------------------------ *)
RepoName == "agenticaitraining"
\* A directory path: the directory made by the n-th mkdtemp, or an entry in it.
NoPath == [tmp |-> 0, sub |-> ""]
mkdtemp(n) == [tmp |-> n, sub |-> ""]
\* os.path.join(temp_dir, name)
join(p, name) == [tmp |-> p.tmp, sub |-> name]
\* p and everything below it, among the directories ds.
Under(ds, p) == {q \in ds : q.tmp = p.tmp /\ (p.sub = "" \/ q.sub = p.sub)}

\* shutil.rmtree(path): removes path and everything below it; raises
\* FileNotFoundError when path does not exist.
rmtree(ds, p) ==
    IF p \in ds
    THEN [raised |-> FALSE, dirs |-> ds \ Under(ds, p)]
    ELSE [raised |-> TRUE, dirs |-> ds]

\* clone_repository_to_temp_dir (lines 26-39). n: the fresh mkdtemp name;
\* cloneOk: git clone exits 0; partial: git left the target directory behind
\* when it failed. The except clause removes temp_dir and does not re-raise,
\* so the function returns the joined path in both cases.
clone_repository_to_temp_dir(ds, n, cloneOk, partial) ==
    LET temp_dir == mkdtemp(n)
        repo == join(temp_dir, RepoName)
    IN  IF cloneOk
        THEN [raised |-> FALSE, dirs |-> ds \cup {temp_dir, repo}, path |-> repo]
        ELSE [raised |-> FALSE,
              dirs |-> rmtree((ds \cup {temp_dir}) \cup (IF partial THEN {repo} ELSE {}),
                              temp_dir).dirs,
              path |-> repo]

\* clean_up_temp_dir (lines 41-47): shutil.rmtree(temp_dir), nothing caught.
clean_up_temp_dir(ds, temp_dir) == rmtree(ds, temp_dir)

\* checkout_branch (lines 49-58): git checkout in the process's working
\* directory (subprocess.run has no cwd). head: what that directory has
\* checked out, "norepo" when it is no git repository; resolves: the ref
\* exists there. Any failure is raised as CheckoutException.
checkout_branch(head, branch_name, resolves) ==
    IF head # "norepo" /\ resolves
    THEN [raised |-> FALSE, head |-> branch_name]
    ELSE [raised |-> TRUE, head |-> head]

\* The deployment file path of create_deployment_file (lines 160-161).
DeploymentFile(branch_name, environment) ==
    "deployments-" \o branch_name \o "-" \o environment \o ".yaml"
Paths == {DeploymentFile(i[1], i[2]) : i \in Identities}

\* create_deployment_file (lines 149-164): open(path, "w") and write, then
\* return the path and the deployment name it was given; an OSError of open
\* (writeOk = FALSE) propagates and leaves the file as it was. The content
\* is not looked at.
create_deployment_file(fs, deployment_content, branch_name, environment, deployment_name, writeOk, linesep) ==
    LET deployment_file == DeploymentFile(branch_name, environment)
    IN  IF writeOk
        THEN [raised |-> FALSE, path |-> deployment_file, name |-> deployment_name,
              files |-> [fs EXCEPT ![deployment_file] =
                                       f_write(deployment_content, linesep)]]
        ELSE [raised |-> TRUE, path |-> deployment_file, name |-> "", files |-> fs]

(* ------------------------------ cluster -------------------------------- *)
\* The cluster is a set of Deployment objects [ns, name, spec].
Named(cl, ns, name) == {o \in cl : o.ns = ns /\ o.name = name}

\* AppsV1Api.create_namespaced_deployment: 201 and the object added; 409 when
\* an object of that name exists; 422 for a body without a name; 500 for a
\* transport or server fault.
create_namespaced_deployment(cl, dep, ns, fault) ==
    IF fault THEN [status |-> 500, cluster |-> cl]
    ELSE IF dep.name = "" THEN [status |-> 422, cluster |-> cl]
    ELSE IF Named(cl, ns, dep.name) # {} THEN [status |-> Conflict, cluster |-> cl]
    ELSE [status |-> 201,
          cluster |-> cl \cup {[ns |-> ns, name |-> dep.name, spec |-> dep.spec]}]

\* AppsV1Api.replace_namespaced_deployment: 200 and the named object replaced
\* by the body; 404 when there is none; 500 for a fault.
replace_namespaced_deployment(cl, name, ns, dep, fault) ==
    IF fault THEN [status |-> 500, cluster |-> cl]
    ELSE IF Named(cl, ns, name) = {} THEN [status |-> 404, cluster |-> cl]
    ELSE [status |-> 200,
          cluster |-> (cl \ Named(cl, ns, name))
                          \cup {[ns |-> ns, name |-> dep.name, spec |-> dep.spec]}]

\* AppsV1Api.delete_namespaced_deployment: 200 and the object removed; 404
\* when there is none; 500 for a fault.
delete_namespaced_deployment(cl, name, ns, fault) ==
    IF fault THEN [status |-> 500, cluster |-> cl]
    ELSE IF Named(cl, ns, name) = {} THEN [status |-> 404, cluster |-> cl]
    ELSE [status |-> 200, cluster |-> cl \ Named(cl, ns, name)]

\* A handler for ApiException alone, letting every other exception through
\* as it is: what C11 rules out.
except_ApiException(cause) ==
    IF cause = "ApiException" THEN "DeploymentException" ELSE cause
\* lines 88-89: except Exception as e: raise DeploymentException(...). cause
\* is the exception raised inside the try, "none" when there was none.
except_Exception(cause) ==
    IF cause = "none" THEN "none" ELSE "DeploymentException"

\* What a deploy_branch call leaves: the exception that left it (error), the
\* exception raised inside its try (cause), the cluster, and the branch that
\* ran: "created", "replaced" or "none".
Raised(cause, cl) ==
    [raised |-> except_Exception(cause) # "none", error |-> except_Exception(cause),
     cause |-> cause, cluster |-> cl, path |-> "none"]
Returned(cl, path) ==
    [raised |-> FALSE, error |-> "none", cause |-> "none", cluster |-> cl, path |-> path]

\* deploy_branch (lines 61-89). cfgOk: config.load_kube_config succeeds;
\* createFault, replaceFault: the API call fails for a reason other than the
\* object's existence.
\* deploy_branch without its branch for status 409: what C3 rules out.
deploy_no_replace(fs, cl, deployment_file, environment, cfgOk, createFault, replaceFault) ==
    IF ~cfgOk THEN Raised("ConfigException", cl)
    ELSE IF fs[deployment_file] = NoFile THEN Raised("FileNotFoundError", cl)
    ELSE IF safe_load(fs[deployment_file]).raised THEN Raised("YAMLError", cl)
    ELSE LET dep == safe_load(fs[deployment_file])
             c == create_namespaced_deployment(cl, dep, environment, createFault)
         IN  IF c.status = 201
             THEN Returned(c.cluster, "created")
             ELSE Raised("ApiException", cl)
deploy_branch(fs, cl, deployment_file, environment, cfgOk, createFault, replaceFault) ==
    IF ~cfgOk THEN Raised("ConfigException", cl)
    ELSE IF fs[deployment_file] = NoFile THEN Raised("FileNotFoundError", cl)
    ELSE IF safe_load(fs[deployment_file]).raised THEN Raised("YAMLError", cl)
    ELSE LET dep == safe_load(fs[deployment_file])
             c == create_namespaced_deployment(cl, dep, environment, createFault)
         IN  IF c.status = 201
             THEN Returned(c.cluster, "created")
             ELSE IF c.status = Conflict
             THEN LET r == replace_namespaced_deployment(cl, dep.name, environment,
                                                        dep, replaceFault)
                  IN  IF r.status = 200
                      THEN Returned(r.cluster, "replaced")
                      ELSE Raised("ApiException", cl)
             ELSE Raised("ApiException", cl)

\* rollback_branch (lines 91-110). The delete is in the first try: when it
\* fails RollbackException leaves before os.remove runs. os.remove of a
\* missing file raises (re-raised as a plain Exception).
rollback_branch(fs, cl, deployment_file, environment, deployment_name, cfgOk, fault) ==
    LET d == delete_namespaced_deployment(cl, deployment_name, environment, fault)
    IN  IF ~cfgOk \/ d.status # 200
        THEN [raised |-> "RollbackException", cluster |-> cl, files |-> fs]
        ELSE IF fs[deployment_file] = NoFile
        THEN [raised |-> "Exception", cluster |-> d.cluster, files |-> fs]
        ELSE [raised |-> "none", cluster |-> d.cluster,
              files |-> [fs EXCEPT ![deployment_file] = NoFile]]


\* build_docker_image (lines 136-140): docker build with cwd=temp_dir, which
\* raises when temp_dir does not exist; the image is built from whatever
\* tree the workspace holds. Every failure leaves as BuildException.
build_docker_image(ds, temp_dir, tree, buildOk) ==
    IF temp_dir \in ds /\ buildOk
    THEN [raised |-> FALSE, image |-> tree]
    ELSE [raised |-> TRUE, image |-> "none"]

\* push_docker_image (lines 142-147): docker push of the branch's tag.
push_docker_image(image, pushOk) ==
    IF pushOk THEN [raised |-> FALSE, pushed |-> TRUE]
    ELSE [raised |-> TRUE, pushed |-> FALSE]

\* get_runbook (runbook_agent.py lines 4-11): reads runbooks/image_pull_error.json
\* whatever the failure summary is; raises when the file cannot be read.
get_runbook(failure_summary, readOk) ==
    IF readOk THEN [raised |-> FALSE, runbook |-> "image_pull_error"]
    ELSE [raised |-> TRUE, runbook |-> "none"]

(* ------------------------------ monitor -------------------------------- *)
\* A status condition is a (type, status) pair; status is a string.
Conditions == [type : {"Available", "Progressing"}, status : {"True", "False"}]
\* status.conditions: a list of conditions; None and [] are the empty set.
Statuses == SUBSET Conditions

\* A test of the condition's type alone: what C4 rules out.
available_ignores_status(conditions) == \E cond \in conditions : cond.type = "Available"
\* lines 127-130: some condition has type "Available" and status "True".
is_available(conditions) ==
    conditions # {} /\ \E cond \in conditions :
        cond.type = "Available" /\ cond.status = "True"

\* A loop test that admits elapsed = timeout: what C5 rules out.
loop_inclusive(elapsed, timeout) == elapsed <= timeout
\* line 124: while time.time() - start < timeout
loop_condition(elapsed, timeout) == elapsed < timeout

\* AppsV1Api.read_namespaced_deployment: 200 with the object's status; 404
\* when there is no such object; 500 for a fault.
read_namespaced_deployment(cl, name, ns, fault) ==
    IF fault THEN 500
    ELSE IF Named(cl, ns, name) = {} THEN 404
    ELSE 200

\* A loop body that takes a failed read for a status that is not ready:
\* what C6 rules out.
poll_swallows_error(code, conditions) ==
    IF code = 200 /\ is_available(conditions) THEN "True" ELSE "sleep"
\* lines 125-134, one pass of the loop body after the read returned code:
\* a failed read leaves as MonitorException, an available status returns
\* True, anything else goes on to time.sleep.
poll_outcome(code, conditions) ==
    IF code # 200 THEN "MonitorException"
    ELSE IF is_available(conditions) THEN "True"
    ELSE "sleep"

\* What a status read showed: a condition of type Available in true state.
ShowsAvailable(conditions) ==
    \E c \in conditions : c = [type |-> "Available", status |-> "True"]

\* The state of one monitor_deployment call. elapsed is time.time() - start;
\* reads and sleeps count the calls made. What happened during the call is
\* recorded beside it: cfgErr (the configuration did not load), sawAvail (a
\* read showed Available in true state), firstAvail (the first read did),
\* readErr (a read failed), expired (a loop test found the timeout elapsed),
\* last (the last blocking call made).
MonIdle ==
    [mpc |-> "idle", timeout |-> 0, interval |-> 0, elapsed |-> 0, reads |-> 0,
     sleeps |-> 0, result |-> "none", cfgErr |-> FALSE, sawAvail |-> FALSE,
     firstAvail |-> FALSE, readErr |-> FALSE, expired |-> FALSE, last |-> "none"]
MonCall(timeout, interval) ==
    [MonIdle EXCEPT !.mpc = "call", !.timeout = timeout, !.interval = interval]

VARIABLES
    pc,            \* where the run stands
    flow,          \* "full" (called by the root agent) or "resume" (by the runbook agent)
    branch, env,   \* the deployment identity of the run
    ws,            \* the path clone_repository_to_temp_dir returned
    tmpCount,      \* mkdtemp calls so far
    dirs,          \* the directories that exist
    wsTree,        \* the ref the cloned workspace has checked out
    cwdHead,       \* the ref the process's working directory has checked out
    built,         \* the tree the image was built from
    pushed,        \* the image was pushed
    files,         \* deployment file path -> content
    cluster,       \* the Deployment objects
    failures,      \* how many times the deployment has failed
    cycles,        \* runbook agent invocations
    summary,       \* the failure summary given to the user
    err,           \* the failure the run is handling
    releaseRaised, \* some clean_up_temp_dir call raised
    applies,       \* the deploy_branch calls made, in order
    lastRollback,  \* the last rollback_branch call
    lastClone,     \* the last clone_repository_to_temp_dir call
    steps,         \* the tools called, in order
    latency,       \* the longest a status read of this cluster takes (seconds)
    os_linesep,    \* the platform's line separator
    runs,          \* the deployment agent sessions that share the files and the cluster
    lookups,       \* the runbook agent's get_runbook calls, in order
    mon            \* the monitor_deployment call in progress

vars == <<pc, flow, branch, env, ws, tmpCount, dirs, wsTree, cwdHead, built, pushed,
          files, cluster, failures, cycles, summary, err, releaseRaised, applies,
          lastRollback, lastClone, steps, latency, os_linesep, runs, lookups, mon>>

idVars == <<branch, env, latency, os_linesep, runs, lookups>>
fsVars == <<ws, tmpCount, dirs, wsTree, lastClone>>
imageVars == <<built, pushed>>
countVars == <<failures, cycles, summary>>

\* Two sessions of the deployment agent, each deploying for a user.
Sessions == {1, 2}
\* What is known of a session: where it stands, the arguments it calls the
\* tools with (branch, env, name, content), what create_deployment_file
\* returned to it (path, ret), the deployment file's content when its
\* deploy_branch opened it (applied), and the exception that left its last
\* tool call (error).
IdleRun ==
    [pc |-> "Idle", branch |-> "", env |-> "", name |-> "", content |-> <<>>,
     path |-> "", ret |-> "", applied |-> NoFile, error |-> "none"]
NewRun(b, e, n, text) ==
    [IdleRun EXCEPT !.pc = "Pushed", !.branch = b, !.env = e, !.name = n,
                    !.content = text]

NoRollback == [n |-> 0, raised |-> "none", had |-> FALSE]
NoClone == [n |-> 0, ok |-> FALSE, raised |-> FALSE]
\* An entry of applies records one deploy_branch call: whether it raised, the
\* exception that left it and the one that caused it, the branch it took,
\* the deployment file's content (NoFile when there was no file), whether
\* the configuration or an API call was made to fail, and the cluster before
\* and after.

File == DeploymentFile(branch, env)

\* The states the run can start in: nothing cloned; the deployment file of
\* this identity and its Deployment object may be left from an earlier run.
Init ==
    /\ pc = "Fetching"
    /\ flow = "full"
    /\ branch \in Branches
    /\ env = "staging"
    /\ ws = NoPath
    /\ tmpCount = 0
    /\ dirs = {}
    /\ wsTree = "none"
    /\ cwdHead \in {"norepo", "main"}
    /\ built = "none"
    /\ pushed = FALSE
    /\ \E old \in {NoFile, <<"good-1">>} :
         files = [p \in Paths |-> IF p = DeploymentFile(branch, env) THEN old ELSE NoFile]
    /\ cluster \in {{}, {[ns |-> env, name |-> DeploymentName, spec |-> "spec-1"]}}
    /\ failures = 0
    /\ cycles = 0
    /\ summary = ""
    /\ err = "none"
    /\ releaseRaised = FALSE
    /\ applies = <<>>
    /\ lastRollback = NoRollback
    /\ lastClone = NoClone
    /\ steps = <<>>
    /\ latency = 0
    /\ os_linesep = <<"LF">>
    /\ runs = [r \in Sessions |-> IdleRun]
    /\ lookups = <<>>
    /\ mon = MonIdle

(* ------------------------ the agent's error rule ----------------------- *)
\* "If any error occurs, use the clean_up_temp_dir tool" (line 198), then
\* "If a tool raises a CheckoutException, ... tell the user" (line 201), and
\* otherwise the deployment has failed (steps 1.9, 2.5). w and ds are the
\* workspace path and the directories after the failing tool, called the
\* tools the step called; a raise of clean_up_temp_dir itself is noted and
\* the original failure is handled.
TerminalOnCheckout(kind) == kind = "CheckoutException"
Raise(kind, ds, w, called) ==
    LET c == clean_up_temp_dir(ds, w)
    IN  /\ dirs' = c.dirs
        /\ releaseRaised' = (releaseRaised \/ c.raised)
        /\ err' = kind
        /\ steps' = (steps \o called) \o <<"clean_up_temp_dir">>
        /\ IF TerminalOnCheckout(kind)
           THEN pc' = "CheckoutFailed" /\ failures' = failures
           ELSE pc' = "Failed" /\ failures' = failures + 1

(* ------------------------------ full flow ------------------------------ *)
\* Steps 1.1-1.2: create a temporary directory and clone the repository.
Clone ==
    /\ pc = "Fetching"
    /\ \E cloneOk \in BOOLEAN, partial \in BOOLEAN :
         LET r == clone_repository_to_temp_dir(dirs, tmpCount + 1, cloneOk, partial)
         IN  /\ tmpCount' = tmpCount + 1
             /\ ws' = r.path
             /\ wsTree' = IF cloneOk THEN "main" ELSE "none"
             /\ lastClone' = [n |-> tmpCount + 1, ok |-> cloneOk, raised |-> r.raised]
             /\ IF r.raised
                THEN /\ Raise("CheckoutException", r.dirs, r.path, <<"clone">>)
                     /\ UNCHANGED <<flow, idVars, cwdHead, imageVars, files, cluster,
                                    cycles, summary, applies, lastRollback, mon>>
                ELSE /\ dirs' = r.dirs
                     /\ pc' = "Cloned"
                     /\ steps' = Append(steps, "clone")
                     /\ UNCHANGED <<flow, idVars, cwdHead, imageVars, files, cluster,
                                    countVars, err, releaseRaised, applies,
                                    lastRollback, mon>>

\* Step 1.3: check out the branch.
Checkout ==
    /\ pc = "Cloned"
    /\ \E resolves \in BOOLEAN :
         LET r == checkout_branch(cwdHead, branch, resolves)
         IN  /\ cwdHead' = r.head
             /\ IF r.raised
                THEN /\ Raise("CheckoutException", dirs, ws, <<"checkout">>)
                     /\ UNCHANGED <<flow, idVars, ws, tmpCount, wsTree, lastClone,
                                    imageVars, files, cluster, cycles, summary,
                                    applies, lastRollback, mon>>
                ELSE /\ pc' = "CheckedOut"
                     /\ steps' = Append(steps, "checkout")
                     /\ UNCHANGED <<flow, idVars, fsVars, imageVars, files, cluster,
                                    countVars, err, releaseRaised, applies,
                                    lastRollback, mon>>

\* Step 1.4: build the image in the workspace.
Build ==
    /\ pc = "CheckedOut"
    /\ \E buildOk \in BOOLEAN :
         LET r == build_docker_image(dirs, ws, wsTree, buildOk)
         IN  IF r.raised
             THEN /\ Raise("BuildException", dirs, ws, <<"build">>)
                  /\ UNCHANGED <<flow, idVars, ws, tmpCount, wsTree, lastClone, cwdHead,
                                 imageVars, files, cluster, cycles, summary,
                                 applies, lastRollback, mon>>
             ELSE /\ built' = r.image
                  /\ pc' = "Built"
                  /\ steps' = Append(steps, "build")
                  /\ UNCHANGED <<flow, idVars, fsVars, cwdHead, pushed, files, cluster,
                                 countVars, err, releaseRaised, applies,
                                 lastRollback, mon>>

\* Step 1.5: push the image.
Push ==
    /\ pc = "Built"
    /\ \E pushOk \in BOOLEAN :
         LET r == push_docker_image(built, pushOk)
         IN  IF r.raised
             THEN /\ Raise("BuildException", dirs, ws, <<"push">>)
                  /\ UNCHANGED <<flow, idVars, ws, tmpCount, wsTree, lastClone, cwdHead,
                                 imageVars, files, cluster, cycles, summary,
                                 applies, lastRollback, mon>>
             ELSE /\ pushed' = r.pushed
                  /\ pc' = "Pushed"
                  /\ steps' = Append(steps, "push")
                  /\ UNCHANGED <<flow, idVars, fsVars, cwdHead, built, files, cluster,
                                 countVars, err, releaseRaised, applies,
                                 lastRollback, mon>>

\* Step 1.6: write the deployment file with create_deployment_file.
Render ==
    /\ pc = "Pushed"
    /\ \E text \in Texts, writeOk \in BOOLEAN :
         LET r == create_deployment_file(files, text, branch, env, DeploymentName,
                                         writeOk, os_linesep)
         IN  IF r.raised
             THEN /\ Raise("Exception", dirs, ws, <<"render">>)
                  /\ UNCHANGED <<flow, idVars, ws, tmpCount, wsTree, lastClone, cwdHead,
                                 imageVars, files, cluster, cycles, summary,
                                 applies, lastRollback, mon>>
             ELSE /\ files' = r.files
                  /\ pc' = "ManifestReady"
                  /\ steps' = Append(steps, "render")
                  /\ UNCHANGED <<flow, idVars, fsVars, cwdHead, imageVars, cluster,
                                 countVars, err, releaseRaised, applies,
                                 lastRollback, mon>>


(* --------------------- deploy, clean up, monitor ----------------------- *)
\* Steps 1.6 (second) and 2.1: deploy the deployment file of the identity.
Deploy ==
    /\ pc \in {"ManifestReady", "Resume"}
    /\ \E cfgOk \in BOOLEAN, createFault \in BOOLEAN, replaceFault \in BOOLEAN :
         LET r == deploy_branch(files, cluster, File, env, cfgOk, createFault, replaceFault)
         IN  /\ applies' = Append(applies,
                                   [raised |-> r.raised, error |-> r.error,
                                    cause |-> r.cause, path |-> r.path,
                                    text |-> files[File],
                                    faulty |-> (~cfgOk \/ createFault \/ replaceFault),
                                    before |-> cluster, after |-> r.cluster])
             /\ cluster' = r.cluster
             /\ IF r.raised
                THEN /\ Raise(r.error, dirs, ws, <<"apply">>)
                     /\ UNCHANGED <<flow, idVars, ws, tmpCount, wsTree, lastClone, cwdHead,
                                    imageVars, files, cycles, summary, lastRollback, mon>>
                ELSE /\ pc' = "Applied"
                     /\ steps' = Append(steps, "apply")
                     /\ UNCHANGED <<flow, idVars, fsVars, cwdHead, imageVars, files,
                                    countVars, err, releaseRaised, lastRollback, mon>>

\* The timeout and interval the agent calls monitor_deployment with: the
\* defaults of its signature.
AgentMonitorArgs == {<<DefaultTimeout, DefaultInterval>>}

\* Steps 1.7 and 2.2: clean up the temporary directory, then start to
\* monitor (steps 1.8, 2.3). A raise of the clean-up is noted.
Cleanup ==
    /\ pc = "Applied"
    /\ LET c == clean_up_temp_dir(dirs, ws)
       IN  /\ dirs' = c.dirs
           /\ releaseRaised' = (releaseRaised \/ c.raised)
    /\ pc' = "Monitoring"
    /\ \E a \in AgentMonitorArgs : mon' = MonCall(a[1], a[2])
    /\ steps' = steps \o <<"clean_up_temp_dir", "monitor">>
    /\ UNCHANGED <<flow, idVars, ws, tmpCount, wsTree, lastClone, cwdHead, imageVars,
                   files, cluster, countVars, err, applies, lastRollback>>

monUnchanged == <<pc, flow, branch, env, ws, tmpCount, dirs, wsTree, cwdHead, built,
                  pushed, files, cluster, failures, cycles, summary, err, releaseRaised,
                  applies, lastRollback, lastClone, steps, latency, os_linesep,
                  runs, lookups>>

\* monitor_deployment lines 119-123: load the configuration, note the start.
MonBegin ==
    /\ pc = "Monitoring" /\ mon.mpc = "call"
    /\ \E cfgOk \in BOOLEAN :
         mon' = IF cfgOk
                THEN [mon EXCEPT !.mpc = "check", !.elapsed = 0]
                ELSE [mon EXCEPT !.mpc = "done", !.result = "MonitorException",
                                 !.cfgErr = TRUE]
    /\ UNCHANGED monUnchanged

\* line 124 and line 132: the loop test; return False when it fails.
MonCheck ==
    /\ pc = "Monitoring" /\ mon.mpc = "check"
    /\ LET m == [mon EXCEPT !.expired = (mon.elapsed >= mon.timeout)]
       IN  mon' = IF loop_condition(mon.elapsed, mon.timeout)
                  THEN [m EXCEPT !.mpc = "read"]
                  ELSE [m EXCEPT !.mpc = "done", !.result = "False"]
    /\ UNCHANGED monUnchanged

\* lines 125-130: one status read, taking d seconds; return True when the
\* status has an Available condition with status "True". A read that fails
\* leaves as MonitorException (lines 133-134).
MonRead ==
    /\ pc = "Monitoring" /\ mon.mpc = "read"
    /\ \E d \in 0..latency, fault \in BOOLEAN, conditions \in Statuses :
         LET code == read_namespaced_deployment(cluster, DeploymentName, env, fault)
             shown == code = 200 /\ ShowsAvailable(conditions)
             m == [mon EXCEPT !.elapsed = @ + d, !.reads = @ + 1, !.last = "read",
                              !.readErr = (@ \/ code # 200),
                              !.sawAvail = (@ \/ shown),
                              !.firstAvail = (@ \/ (mon.reads = 0 /\ shown))]
             out == poll_outcome(code, conditions)
         IN  mon' = IF out = "sleep"
                    THEN [m EXCEPT !.mpc = "sleep"]
                    ELSE [m EXCEPT !.mpc = "done", !.result = out]
    /\ UNCHANGED monUnchanged

\* A sleep that returns at once: what C18 rules out.
busy_spin(elapsed, interval) == elapsed
\* time.sleep(interval): the time elapsed when it returns.
time_sleep(elapsed, interval) == elapsed + interval

\* line 131: time.sleep(interval).
MonSleep ==
    /\ pc = "Monitoring" /\ mon.mpc = "sleep"
    /\ mon' = [mon EXCEPT !.mpc = "check",
                          !.elapsed = time_sleep(mon.elapsed, mon.interval),
                          !.sleeps = @ + 1, !.last = "sleep"]
    /\ UNCHANGED monUnchanged

\* Steps 1.8-1.10 and 2.3-2.6: what the agent does with the monitor's result.
MonReturn ==
    /\ pc = "Monitoring" /\ mon.mpc = "done"
    /\ mon' = MonIdle
    /\ CASE mon.result = "True" ->
              /\ pc' = "Succeeded"
              /\ UNCHANGED <<dirs, releaseRaised, err, failures, steps>>
         [] mon.result = "False" ->
              /\ pc' = "Failed"
              /\ failures' = failures + 1
              /\ err' = "MonitorFalse"
              /\ UNCHANGED <<dirs, releaseRaised, steps>>
         [] OTHER -> Raise("MonitorException", dirs, ws, <<>>)
    /\ UNCHANGED <<flow, idVars, ws, tmpCount, wsTree, lastClone, cwdHead, imageVars,
                   files, cluster, cycles, summary, applies, lastRollback>>

(* ----------------------------- remediation ----------------------------- *)
\* Step 2.4: "If the deployment has failed 3 times already, tell the user
\* that the deployment cannot be fixed". The step is part of the runbook
\* agent's call only. Whether the failure just seen counts among the 3 is not
\* said: with failures = FailureCap both readings are possible, above it
\* only giving up is.
\* A step 2.4 that never applies: what C17 rules out.
NeverGiveUp(fl, n) == FALSE
MayGiveUp(fl, n) == fl = "resume" /\ n >= FailureCap
\* A retry rule without the cap: what C2 rules out.
NeverRetryBound(fl, n) == TRUE
MayRetry(fl, n) == fl = "full" \/ n <= FailureCap

\* Steps 1.9 and 2.5: invoke the runbook agent.
InvokeRunbook ==
    /\ pc = "Failed"
    /\ MayRetry(flow, failures)
    /\ pc' = "Remediating"
    /\ cycles' = cycles + 1
    /\ UNCHANGED <<flow, idVars, fsVars, dirs, cwdHead, imageVars, files, cluster,
                   failures, summary, err, releaseRaised, applies, lastRollback,
                   steps, mon>>

\* Step 2.4: give up and give the user the summary of the failure.
Escalate ==
    /\ pc = "Failed"
    /\ MayGiveUp(flow, failures)
    /\ pc' = "Escalated"
    /\ summary' = err
    /\ UNCHANGED <<flow, idVars, fsVars, dirs, cwdHead, imageVars, files, cluster,
                   failures, cycles, err, releaseRaised, applies, lastRollback,
                   steps, mon>>

\* A call by the runbook agent that starts the deployment agent at its step
\* 1.1: what C12 rules out.
RestartFromFetch == "Fetching"
\* Lines 176 and 190: called by the runbook agent, the deployment agent
\* skips steps 1.1-1.10 and starts at step 2.1.
ResumeEntry == "Resume"

\* The runbook agent (runbook_agent.py lines 16-26): summarise the failure,
\* get the runbook, follow it, then either report the deployment fixed or
\* tell the deployment agent to try again. Its only tool is get_runbook.
Runbook ==
    /\ pc = "Remediating"
    /\ \E readOk \in BOOLEAN, fixed \in BOOLEAN :
         LET r == get_runbook(err, readOk)
         IN  /\ steps' = Append(steps, "get_runbook")
             /\ summary' = err
             /\ IF fixed /\ ~r.raised
                THEN pc' = "Succeeded" /\ flow' = flow
                ELSE pc' = ResumeEntry /\ flow' = "resume"
    /\ UNCHANGED <<idVars, fsVars, dirs, cwdHead, imageVars, files, cluster, failures,
                   cycles, err, releaseRaised, applies, lastRollback, mon>>

(* ------------------------------ rollback ------------------------------- *)
Terminal == {"Succeeded", "Escalated", "CheckoutFailed"}

\* root_agent.py line 11: the user asks to roll the branch back, after the
\* deployment run has ended.
Rollback ==
    /\ pc \in Terminal
    /\ lastRollback.n < MaxRollbacks
    /\ \E cfgOk \in BOOLEAN, fault \in BOOLEAN :
         LET r == rollback_branch(files, cluster, File, env, DeploymentName, cfgOk, fault)
         IN  /\ files' = r.files
             /\ cluster' = r.cluster
             /\ lastRollback' = [n |-> lastRollback.n + 1, raised |-> r.raised,
                                 had |-> files[File] # NoFile]
    /\ steps' = Append(steps, "rollback")
    /\ UNCHANGED <<pc, flow, idVars, fsVars, dirs, cwdHead, imageVars, countVars, err,
                   releaseRaised, applies, mon>>

(* --------------------------- specifications ---------------------------- *)
Next ==
    \/ Clone
    \/ Checkout
    \/ Build
    \/ Push
    \/ Render
    \/ Deploy
    \/ Cleanup
    \/ MonBegin
    \/ MonCheck
    \/ MonRead
    \/ MonSleep
    \/ MonReturn
    \/ InvokeRunbook
    \/ Escalate
    \/ Runbook
    \/ Rollback

Spec == Init /\ [][Next]_vars

\* The steps of the run itself, the user's later rollbacks apart. Every tool
\* call returns and each agent goes on to its next step, so a step of the
\* run that can be taken is taken.
RunStep ==
    \/ Clone
    \/ Checkout
    \/ Build
    \/ Push
    \/ Render
    \/ Deploy
    \/ Cleanup
    \/ MonBegin
    \/ MonCheck
    \/ MonRead
    \/ MonSleep
    \/ MonReturn
    \/ InvokeRunbook
    \/ Escalate
    \/ Runbook

LiveSpec == Spec /\ WF_vars(RunStep)

\* One monitor_deployment call on its own, for every timeout and interval
\* up to the bounds and for the defaults, against a cluster that has or
\* lacks the Deployment.
Timeouts == (0..MaxTimeout) \cup {DefaultTimeout}
Intervals == (1..MaxInterval) \cup {DefaultInterval}

MonitorInit ==
    /\ pc = "Monitoring"
    /\ flow = "full"
    /\ branch \in Branches
    /\ env = "staging"
    /\ ws = NoPath
    /\ tmpCount = 0
    /\ dirs = {}
    /\ wsTree = "none"
    /\ cwdHead = "norepo"
    /\ built = "none"
    /\ pushed = FALSE
    /\ files = [p \in Paths |-> NoFile]
    /\ cluster \in {{}, {[ns |-> env, name |-> DeploymentName, spec |-> "spec-1"]}}
    /\ failures = 0
    /\ cycles = 0
    /\ summary = ""
    /\ err = "none"
    /\ releaseRaised = FALSE
    /\ applies = <<>>
    /\ lastRollback = NoRollback
    /\ lastClone = NoClone
    /\ steps = <<>>
    /\ latency \in 0..MaxReadDur
    /\ os_linesep = <<"LF">>
    /\ runs = [r \in Sessions |-> IdleRun]
    /\ lookups = <<>>
    /\ \E t \in Timeouts, i \in Intervals : mon = MonCall(t, i)

MonitorNext ==
    \/ MonBegin
    \/ MonCheck
    \/ MonRead
    \/ MonSleep

MonitorSpec == MonitorInit /\ [][MonitorNext]_vars

\* The call goes on as long as it can: load_kube_config, every status read
\* and every sleep return.
MonitorLive == MonitorSpec /\ WF_vars(MonitorNext)

(* ------------------- sessions sharing files and cluster ---------------- *)
\* The tools are plain functions of one process: every session's
\* create_deployment_file, deploy_branch and rollback_branch work on the same
\* directory (PROJECT_ROOT, line 160) and the same cluster, and nothing in
\* them or in the agents takes a lock. Each tool call is one step.
sessionUnchanged ==
    <<pc, flow, branch, env, ws, tmpCount, dirs, wsTree, cwdHead, built, pushed,
      failures, cycles, summary, err, releaseRaised, applies, lastRollback,
      lastClone, steps, latency, os_linesep, lookups, mon>>

lookupUnchanged ==
    <<pc, flow, branch, env, ws, tmpCount, dirs, wsTree, cwdHead, built, pushed,
      failures, cycles, summary, err, releaseRaised, applies, lastRollback,
      lastClone, steps, latency, os_linesep, mon>>

\* Step 1.6 of session r: write the deployment file.
SessionRender(r) ==
    /\ runs[r].pc = "Pushed"
    /\ \E writeOk \in BOOLEAN :
         LET c == create_deployment_file(files, runs[r].content, runs[r].branch,
                                         runs[r].env, runs[r].name, writeOk, os_linesep)
         IN  /\ files' = c.files
             /\ runs' = [runs EXCEPT ![r] =
                            IF c.raised
                            THEN [@ EXCEPT !.pc = "Failed", !.error = "OSError"]
                            ELSE [@ EXCEPT !.pc = "ManifestReady", !.path = c.path,
                                           !.ret = c.name]]
    /\ UNCHANGED <<cluster, sessionUnchanged>>

\* Step 1.6 (second) of session r: deploy the file create_deployment_file
\* returned.
SessionDeploy(r) ==
    /\ runs[r].pc = "ManifestReady"
    /\ \E cfgOk \in BOOLEAN, createFault \in BOOLEAN, replaceFault \in BOOLEAN :
         LET d == deploy_branch(files, cluster, runs[r].path, runs[r].env, cfgOk,
                                createFault, replaceFault)
         IN  /\ cluster' = d.cluster
             /\ runs' = [runs EXCEPT ![r] =
                            [@ EXCEPT !.pc = IF d.raised THEN "Failed" ELSE "Applied",
                                      !.applied = files[runs[r].path],
                                      !.error = d.error]]
    /\ UNCHANGED <<files, sessionUnchanged>>

\* root_agent.py line 11: the user of session r asks to roll its branch
\* back after its deployment.
SessionRollback(r) ==
    /\ runs[r].pc = "Applied"
    /\ \E cfgOk \in BOOLEAN, fault \in BOOLEAN :
         LET b == rollback_branch(files, cluster, runs[r].path, runs[r].env,
                                  runs[r].name, cfgOk, fault)
         IN  /\ files' = b.files
             /\ cluster' = b.cluster
             /\ runs' = [runs EXCEPT ![r] =
                            [@ EXCEPT !.pc = "RolledBack", !.error = b.raised]]
    /\ UNCHANGED sessionUnchanged

SessionNext ==
    \E r \in Sessions :
        \/ SessionRender(r)
        \/ SessionDeploy(r)
        \/ SessionRollback(r)

\* What the sessions' specifications share: no run of the single-run
\* specification, no file, an empty cluster.
SessionBase ==
    /\ pc = "Idle"
    /\ flow = "full"
    /\ branch = "feature"
    /\ env = "staging"
    /\ ws = NoPath
    /\ tmpCount = 0
    /\ dirs = {}
    /\ wsTree = "none"
    /\ cwdHead = "norepo"
    /\ built = "none"
    /\ pushed = FALSE
    /\ files = [p \in Paths |-> NoFile]
    /\ cluster = {}
    /\ failures = 0
    /\ cycles = 0
    /\ summary = ""
    /\ err = "none"
    /\ releaseRaised = FALSE
    /\ applies = <<>>
    /\ lastRollback = NoRollback
    /\ lastClone = NoClone
    /\ steps = <<>>
    /\ latency = 0
    /\ lookups = <<>>
    /\ mon = MonIdle

\* Two sessions in flight, each for a (branch, environment) and a content of
\* its own, the same or different.
SharedInit ==
    /\ SessionBase
    /\ os_linesep = <<"LF">>
    /\ \E i1 \in Identities, i2 \in Identities, t1 \in Texts, t2 \in Texts :
         runs = [r \in Sessions |->
                   IF r = 1 THEN NewRun(i1[1], i1[2], DeploymentName, t1)
                   ELSE NewRun(i2[1], i2[2], DeploymentName, t2)]

SharedSpec == SharedInit /\ [][SessionNext]_vars

\* One session on its own, for every content of up to MaxLen pieces, every
\* (branch, environment), deployment name and platform.
Pieces == {"good-1", "LF", "CR"}
Documents == UNION {[1..n -> Pieces] : n \in 0..MaxLen}
Names == {DeploymentName, "api"}

RenderInit ==
    /\ SessionBase
    /\ os_linesep \in LineSeps
    /\ \E i \in Identities, n \in Names, text \in Documents :
         runs = [r \in Sessions |->
                   IF r = 1 THEN NewRun(i[1], i[2], n, text) ELSE IdleRun]

RenderSpec == RenderInit /\ [][SessionNext]_vars

(* ----------------------- the runbook agent's lookup -------------------- *)
\* The failures the runbook agent is handed (the exceptions of the tools and
\* a monitor result of False), and the one failure a runbook file is named
\* for (runbooks/image_pull_error.json, runbook_agent.py line 9).
Signatures ==
    {"BuildException", "Exception", "DeploymentException", "MonitorException",
     "MonitorFalse", "ImagePullError"}

\* Step 3 of the runbook agent: get the runbook for the failure it has
\* summarised. readOk: the runbook file can be read.
Lookup ==
    /\ Len(lookups) < MaxLookups
    /\ \E failure_summary \in Signatures, readOk \in BOOLEAN :
         LET g == get_runbook(failure_summary, readOk)
         IN  lookups' = Append(lookups, [summary |-> failure_summary,
                                         raised |-> g.raised, runbook |-> g.runbook])
    /\ UNCHANGED <<files, cluster, runs, lookupUnchanged>>

LookupInit ==
    /\ SessionBase
    /\ os_linesep = <<"LF">>
    /\ runs = [r \in Sessions |-> IdleRun]

LookupSpec == LookupInit /\ [][Lookup]_vars


(* ============================== claims ================================= *)

\* C1 (as claimed): in every state that ends a run (Succeeded, Failed,
\* Escalated, or the checkout failure reported to the user) no directory
\* made by clone_repository_to_temp_dir exists any more, the mkdtemp
\* directory included, and there is never more than one workspace.
C1_NoWorkspaceOutlivesRun ==
    /\ pc \in {"Succeeded", "Failed", "Escalated", "CheckoutFailed"} => dirs = {}
    /\ Cardinality({d \in dirs : d.sub = RepoName}) <= 1

\* C2: the runbook agent is invoked at most FailureCap times in a run; once
\* it has been invoked FailureCap times and the deployment fails again, the
\* only step is to give up with a non-empty failure summary, and that step
\* calls no tool (no get_runbook, no deploy, no monitor); Escalated is final.
RunbookCalls == Cardinality({i \in DOMAIN steps : steps[i] = "get_runbook"})
Clean(a) == ~a.faulty /\ a.text # NoFile /\ ~safe_load(a.text).raised
               /\ safe_load(a.text).name # ""
Sole(cl, ns, text) ==
    Named(cl, ns, safe_load(text).name)
        = {[ns |-> ns, name |-> safe_load(text).name, spec |-> safe_load(text).spec]}
C3_ApplyIdempotent ==
    \A i \in DOMAIN applies :
        LET a == applies[i]
        IN  (Clean(a) /\ Named(a.before, env, safe_load(a.text).name) = {}) =>
              /\ ~a.raised /\ a.path = "created"
              /\ Sole(a.after, env, a.text)
              /\ \A j \in DOMAIN applies :
                    LET b == applies[j]
                    IN  (j = i + 1 /\ Clean(b) /\ b.text = a.text /\ b.before = a.after) =>
                          /\ ~b.raised /\ b.path = "replaced"
                          /\ b.after = a.after
                          /\ Sole(b.after, env, b.text)
C3_Witness ==
    /\ Len(applies) >= 2
    /\ applies[1].path = "created" /\ Clean(applies[1])
    /\ applies[2].path = "replaced" /\ Clean(applies[2])
    /\ applies[2].text = applies[1].text
    /\ applies[2].before = applies[1].after


\* C4: monitor_deployment returns True exactly when a status read it made
\* showed a condition of type Available in true state, every read starts
\* while the timeout has not elapsed, and it returns False only after a loop
\* test found the timeout elapsed with no read having shown that condition.
C4_TrueIffAvailableSeen ==
    /\ mon.mpc = "read" => mon.elapsed < mon.timeout
    /\ mon.mpc = "done" =>
          /\ mon.result = "True" <=> mon.sawAvail
          /\ mon.result = "False" =>
                (mon.expired /\ mon.elapsed >= mon.timeout /\ ~mon.sawAvail)
    /\ mon.mpc # "done" => (mon.result = "none" /\ ~mon.sawAvail)
C4_Witness ==
    /\ mon.mpc = "done" /\ mon.result = "True"
    /\ mon.reads >= 2 /\ mon.sleeps >= 1 /\ mon.sawAvail

\* C5 (as claimed): with timeout = 0 the call returns False with no status
\* read and no sleep; with timeout > 0 and a first status read that shows
\* Available in true state it returns True after one read and no sleep.
C5_ZeroTimeoutReturnsFalse ==
    /\ (mon.mpc = "done" /\ mon.timeout = 0) =>
          (mon.result = "False" /\ mon.reads = 0 /\ mon.sleeps = 0)
    /\ (mon.timeout > 0 /\ mon.firstAvail) =>
          (mon.mpc = "done" /\ mon.result = "True" /\ mon.reads = 1 /\ mon.sleeps = 0)

\* C5 (amended): with timeout = 0 the call makes no status read and no
\* sleep, and returns False unless load_kube_config fails, when it raises
\* MonitorException; with timeout > 0 and a first status read that shows
\* Available in true state it returns True after one read and no sleep.
C5_ZeroTimeoutNoReadNoSleep ==
    /\ mon.timeout = 0 => (mon.reads = 0 /\ mon.sleeps = 0)
    /\ (mon.mpc = "done" /\ mon.timeout = 0) =>
          /\ ~mon.cfgErr => mon.result = "False"
          /\ mon.cfgErr => mon.result = "MonitorException"
    /\ (mon.timeout > 0 /\ mon.firstAvail) =>
          (mon.mpc = "done" /\ mon.result = "True" /\ mon.reads = 1 /\ mon.sleeps = 0)
C5_WitnessZero == mon.mpc = "done" /\ mon.timeout = 0 /\ mon.result = "False"
C5_WitnessFirst ==
    mon.mpc = "done" /\ mon.timeout > 0 /\ mon.firstAvail /\ mon.result = "True"

\* C6: a call in which a status read failed ends with MonitorException and
\* never with False; a call whose loop test found the timeout elapsed, all
\* its reads having succeeded, ends with False and never with
\* MonitorException.
C6_ErrorAndTimeoutDistinct ==
    /\ mon.readErr => (mon.mpc = "done" /\ mon.result = "MonitorException")
    /\ (mon.expired /\ ~mon.readErr) => (mon.mpc = "done" /\ mon.result = "False")
    /\ (mon.mpc = "done" /\ mon.result = "False") => (~mon.readErr /\ ~mon.cfgErr)
C6_WitnessError ==
    mon.mpc = "done" /\ mon.readErr /\ mon.reads >= 2 /\ mon.result = "MonitorException"
C6_WitnessTimeout ==
    mon.mpc = "done" /\ mon.expired /\ mon.reads >= 2 /\ mon.result = "False"


\* C7 (as claimed): clone followed by checkout ends in one of two ways. Both
\* return normally, and then the path the clone returned exists and that
\* workspace has the branch checked out; or a checkout failure is raised (by
\* the clone when git clone exits non-zero, by the checkout when the ref does
\* not resolve), and then no workspace directory remains.
C7_FetchThenCheckout ==
    /\ (lastClone.n > 0 /\ ~lastClone.ok) => lastClone.raised
    /\ pc = "Cloned" => ws \in dirs
    /\ pc = "CheckedOut" => (ws \in dirs /\ wsTree = branch)
    /\ pc = "CheckoutFailed" => dirs = {}

\* C8 (as claimed): the deployment file of the identity exists whenever
\* deploy_branch is called for it; a deployment file is removed only by a
\* rollback_branch call whose cluster delete succeeded, and a rollback that
\* raises RollbackException leaves the files as they were.
C8_ManifestLifecycle ==
    [][ /\ applies' # applies => files[File] # NoFile
        /\ \A p \in Paths :
              (files[p] # NoFile /\ files'[p] = NoFile) =>
                  /\ lastRollback'.n = lastRollback.n + 1
                  /\ lastRollback'.raised = "none"
                  /\ Named(cluster, env, DeploymentName) # {}
                  /\ Named(cluster', env, DeploymentName) = {}
        /\ (lastRollback'.n = lastRollback.n + 1
              /\ lastRollback'.raised = "RollbackException") => files' = files
      ]_vars

\* C9 (as claimed): a failure of the checkout stage (git clone exits
\* non-zero, or checkout_branch raises) ends the run: the runbook agent is
\* never invoked after it. Every other failure is handed to the runbook
\* agent before the run ends.
CheckoutStageFailed == (lastClone.n > 0 /\ ~lastClone.ok) \/ err = "CheckoutException"
C9_CheckoutFailureTerminal ==
    /\ CheckoutStageFailed =>
          (cycles = 0 /\ RunbookCalls = 0 /\ pc \notin {"Remediating", "Resume"})
    /\ (pc \in Terminal /\ err \notin {"none", "CheckoutException"}) => cycles >= 1

\* C10 (as claimed): no call of clean_up_temp_dir raises.
C10_ReleaseNeverRaises == ~releaseRaised

\* C11: every deploy_branch call that fails raises DeploymentException and
\* nothing else, whatever the exception inside it was: a failure to load the
\* configuration, to open or to parse the deployment file, a create error
\* other than 409, or a failure of the replace that follows a 409. A 409 of
\* the create on its own, the replace succeeding, is no error; and the agent
\* then handles a DeploymentException.
C11_ApplyRaisesDeploymentFailure ==
    /\ \A i \in DOMAIN applies :
          LET a == applies[i]
          IN  /\ a.error \in {"none", "DeploymentException"}
              /\ a.raised <=> a.error = "DeploymentException"
              /\ a.raised <=> a.cause # "none"
              /\ a.raised => (a.path = "none" /\ a.after = a.before)
              /\ (Clean(a) /\ Named(a.before, env, safe_load(a.text).name) # {}) =>
                    (~a.raised /\ a.path = "replaced")
    /\ (applies # <<>> /\ applies[Len(applies)].raised /\ pc = "Failed"
           /\ steps[Len(steps)] = "clean_up_temp_dir") => err = "DeploymentException"
C11_Witness ==
    /\ \E i \in DOMAIN applies : applies[i].cause = "ConfigException"
    /\ \E i \in DOMAIN applies : applies[i].cause = "ApiException"
    /\ \E i \in DOMAIN applies : applies[i].path = "replaced"

\* C12: once the runbook agent has called the deployment agent, the run
\* calls none of clone, checkout, build, push and create_deployment_file:
\* no temporary directory is made, the image and the deployment files stay
\* as they are (a rollback after the run apart), and every deploy_branch
\* call reads the deployment file of the run's (branch, environment); when
\* that file exists and the call succeeds, the cluster's object is the one
\* the file describes.
ResumeTools == {"apply", "clean_up_temp_dir", "monitor", "get_runbook", "rollback"}
C12_ResumeStartsAtApply ==
    [][ flow' = "resume" =>
          /\ Len(steps') >= Len(steps)
          /\ \A i \in (Len(steps) + 1)..Len(steps') : steps'[i] \in ResumeTools
          /\ tmpCount' = tmpCount /\ ws' = ws /\ dirs' \subseteq dirs
          /\ wsTree' = wsTree /\ cwdHead' = cwdHead
          /\ built' = built /\ pushed' = pushed
          /\ (lastRollback' = lastRollback) => files' = files
          /\ (applies' # applies /\ files[File] # NoFile) =>
                LET a == applies'[Len(applies')]
                IN  /\ Len(applies') = Len(applies) + 1
                    /\ a.text = files[File]
                    /\ ~a.raised => Sole(cluster', env, files[File])
      ]_vars
C12_Witness ==
    /\ flow = "resume" /\ pc = "Succeeded" /\ Len(applies) >= 2
    /\ ~applies[Len(applies)].raised /\ applies[Len(applies)].text # NoFile
    /\ steps[Len(steps)] = "monitor"

\* C13 (as claimed): once create_deployment_file has returned, reading the
\* file at the returned path gives the content it was called with, and the
\* name it returned is the name it was called with. At most one session is
\* at work here, so nothing else touches the file.
C13_RenderRoundTrip ==
    \A r \in Sessions :
        runs[r].pc = "ManifestReady" =>
            /\ f_read(files[runs[r].path]) = runs[r].content
            /\ runs[r].ret = runs[r].name

\* C14 (as claimed): create_deployment_file raises when the content does not
\* parse as a Deployment document (YAML, with a metadata.name): the run is
\* never at ManifestReady with such a file, and deploy_branch is never
\* called on one.
ValidManifest(text) == ~safe_load(text).raised /\ safe_load(text).name # ""
C14_InvalidManifestRejected ==
    /\ pc = "ManifestReady" => ValidManifest(files[File])
    /\ \A i \in DOMAIN applies :
          applies[i].text # NoFile => ValidManifest(applies[i].text)

\* C15 (as claimed): get_runbook returns the runbook written for the failure
\* it is given: for a failure that has a runbook, that runbook or an error
\* of reading it; for a failure that has none, an error and no runbook.
\* The only runbook there is, image_pull_error, is for the image pull error.
Authored(failure_summary) ==
    IF failure_summary = "ImagePullError" THEN "image_pull_error" ELSE "none"
C15_LookupMatchesSignature ==
    \A i \in DOMAIN lookups :
        LET l == lookups[i]
        IN  /\ Authored(l.summary) = "none" => (l.raised /\ l.runbook = "none")
            /\ ~l.raised => l.runbook = Authored(l.summary)

\* What session r wrote is what its deployment file holds while it stands
\* between create_deployment_file and deploy_branch, and what its
\* deploy_branch opened.
Deployed(r) ==
    \/ runs[r].pc \in {"Applied", "RolledBack"}
    \/ runs[r].pc = "Failed" /\ runs[r].error = "DeploymentException"
KeepsOwnFile(r) ==
    /\ runs[r].pc = "ManifestReady" =>
          files[runs[r].path] = f_write(runs[r].content, os_linesep)
    /\ Deployed(r) => runs[r].applied = f_write(runs[r].content, os_linesep)
SameIdentity(r, q) ==
    runs[r].branch = runs[q].branch /\ runs[r].env = runs[q].env

\* C16 (as claimed): of two sessions deploying the same (branch,
\* environment), each finds its deployment file as it wrote it from its
\* create_deployment_file to its deploy_branch: the other neither writes nor
\* removes it in between, and the content deploy_branch opens is the
\* content the session wrote.
C16_ExclusiveArtifact ==
    \A r \in Sessions, q \in Sessions :
        (r # q /\ SameIdentity(r, q)) => KeepsOwnFile(r)

\* C20 (as claimed): the deployment file's path depends on (branch,
\* environment) alone, and two different pairs never have the same path:
\* of two sessions deploying different pairs, neither overwrites nor removes
\* the other's deployment file.
C20_PathInjective ==
    /\ \A r \in Sessions :
          runs[r].path # "" => runs[r].path = DeploymentFile(runs[r].branch, runs[r].env)
    /\ \A r \in Sessions, q \in Sessions :
          (r # q /\ ~SameIdentity(r, q)) =>
              /\ (runs[r].path # "" /\ runs[q].path # "") => runs[r].path # runs[q].path
              /\ KeepsOwnFile(r)

\* C17: when every call returns, every run ends: it reaches Succeeded,
\* Escalated or the reported checkout failure. The round deployment agent,
\* runbook agent, deployment agent is cut by step 2.4 after FailureCap
\* failures.
C17_RunTerminates == <>(pc \in Terminal)
C17_Witness ==
    /\ pc = "Escalated" /\ cycles >= 2 /\ failures >= FailureCap
    /\ Len(applies) >= 3 /\ flow = "resume"

\* C18: when every call it makes returns, a monitor_deployment call ends,
\* for every timeout >= 0 and interval > 0. It makes at most
\* ceil(timeout / interval) status reads, and exactly that many when it
\* returns False and reads take no time (24 for 120 and 5); there is a sleep
\* of interval seconds after every read that did not end the call, and
\* never a read right after a read.
CeilDiv(a, b) == (a + b - 1) \div b
WithinReadBudget ==
    /\ mon.reads <= CeilDiv(mon.timeout, mon.interval)
    /\ mon.sleeps <= mon.reads /\ mon.reads <= mon.sleeps + 1
    /\ mon.elapsed >= mon.sleeps * mon.interval
    /\ mon.mpc = "read" =>
          (mon.reads = mon.sleeps /\ (mon.reads = 0 \/ mon.last = "sleep"))
    /\ (mon.mpc = "done" /\ mon.result = "False") =>
          /\ mon.reads = mon.sleeps
          /\ latency = 0 => mon.reads = CeilDiv(mon.timeout, mon.interval)
C18_MonitorTerminates == []WithinReadBudget /\ <>(mon.mpc = "done")
C18_Witness ==
    /\ mon.mpc = "done" /\ mon.result = "False"
    /\ mon.timeout = DefaultTimeout /\ mon.interval = DefaultInterval
    /\ mon.reads = 24 /\ mon.sleeps = 24

\* C19 (as claimed): in the full flow the tools are called in the order
\* clone, checkout, build, push, create_deployment_file, deploy, clean up,
\* monitor, each only after every earlier one succeeded (the clone made the
\* workspace, the image was built and pushed before deploy_branch is called,
\* deploy_branch returned before the monitor starts). When the monitor
\* returns True the run is Succeeded with the runbook agent never invoked;
\* when it returns False the run is Failed with one failure and the runbook
\* agent is invoked for the first time.
FullOrder ==
    <<"clone", "checkout", "build", "push", "render", "apply",
      "clean_up_temp_dir", "monitor">>
Called(tool) == \E i \in DOMAIN steps : steps[i] = tool
InFullOrder ==
    \E n \in 0..Len(FullOrder) :
        /\ n <= Len(steps)
        /\ \A i \in 1..n : steps[i] = FullOrder[i]
        /\ \A i \in (n + 1)..Len(steps) :
              \/ i = n + 1 /\ steps[i] = "clean_up_temp_dir"
              \/ steps[i] \in {"get_runbook", "rollback"}
OnlyAfterSuccess ==
    /\ Called("checkout") => lastClone.ok
    /\ Called("build") => Called("checkout")
    /\ Called("apply") => (pushed /\ built # "none" /\ Called("render"))
    /\ Called("monitor") => (applies # <<>> /\ ~applies[1].raised)
    /\ (pc = "Succeeded" /\ cycles = 0) =>
          (Len(steps) >= Len(FullOrder)
             /\ \A i \in DOMAIN FullOrder : steps[i] = FullOrder[i])
MonitorResultRouted ==
    /\ (pc = "Monitoring" /\ mon.mpc = "done" /\ mon.result = "True") =>
          (pc' = "Succeeded" /\ cycles' = 0 /\ steps' = steps)
    /\ (pc = "Monitoring" /\ mon.mpc = "done" /\ mon.result = "False") =>
          (pc' = "Failed" /\ failures' = 1)
    /\ (pc = "Failed" /\ err = "MonitorFalse") =>
          (pc' = "Remediating" /\ cycles' = 1)
C19_FullFlowOrder ==
    /\ [](flow = "full" => (InFullOrder /\ OnlyAfterSuccess))
    /\ [][flow = "full" => MonitorResultRouted]_vars

====
